---- MODULE Spec2Model ----
(***************************************************************************)
(* Model of the zk-shroud-arena backend: the signed fixed-point decimals   *)
(* (zk/fixed_point_decimal.rs), the polygon commitment and the             *)
(* point-in-polygon predicate in their native and in-circuit flavours      *)
(* (zk/circuit.rs), the /prove and /verify handlers (api/prove.rs,         *)
(* api/verify.rs), and the key setup at process start (main.rs, keys.rs).  *)
(*                                                                         *)
(* Scaling.  The code works over the BN254 scalar field (a 254-bit prime,  *)
(* about 1.51 * 2^253) and recovers magnitudes into u128.  TLC's integers  *)
(* are 32 bits wide, so the model keeps the shape and shrinks the widths:  *)
(* the field is the prime field of FieldModulus = 24781 (15 bits, about    *)
(* 1.51 * 2^14) and the machine integer has U128Bits = 8 bits, so that, as *)
(* in the code, the product of two machine integers can leave the field    *)
(* while a single one cannot.                                              *)
(*                                                                         *)
(* Poseidon is modelled as an ideal sponge: the squeezed element is        *)
(* identified with the sequence of absorbed elements (distinct sequences   *)
(* give distinct commitments, and no commitment is the field zero).        *)
(***************************************************************************)
EXTENDS Integers, Sequences, FiniteSets, TLC

VARIABLES
    \* --- Dec helpers exercised on two operands -------------------------
    dec_a, dec_b,          \* the operands (self, rhs)
    dec_sum, dec_diff, dec_prod,   \* self.add(rhs), self.sub(rhs), self.mul_unscaled(rhs)
    decvar_sum,            \* DecVar::add on variables assigned self and rhs
    dec_done,              \* which of the results above have been computed
    \* --- circuit helpers exercised as in tests::helpers_match_bn254 ---
    point, polygon, num_vertices,
    inside_native, hash_native, inside_gadget, hash_gadget,
    helpers_done,
    \* --- the HTTP server ------------------------------------------------
    request,               \* the /prove request being served
    response,              \* the /prove response
    verify_request,        \* the /verify request being served
    verdict,               \* the /verify response
    pc,                    \* "off", or "serving" once main has started the server
    \* --- the server process and its ./params directory -------------------
    files,                 \* proving_key.bin and verifying_key.bin on disk
    keys,                  \* the keys of AppState while the process runs
    setup_runs,            \* how many times Groth16 setup has run
    starts                 \* how many times the process has been started

vars == <<dec_a, dec_b, dec_sum, dec_diff, dec_prod, decvar_sum, dec_done,
          point, polygon, num_vertices,
          inside_native, hash_native, inside_gadget, hash_gadget, helpers_done,
          request, response, verify_request, verdict, pc,
          files, keys, setup_runs, starts>>

dec_vars == <<dec_a, dec_b, dec_sum, dec_diff, dec_prod, decvar_sum, dec_done>>
helper_vars == <<point, polygon, num_vertices,
                 inside_native, hash_native, inside_gadget, hash_gadget, helpers_done>>
server_vars == <<request, response, verify_request, verdict, pc>>
start_vars == <<files, keys, setup_runs, starts>>

(***************************************************************************)
(* Program constants                                                       *)
(***************************************************************************)
CIRCUIT_MAX_VERTICES == 6

\* The scalar field F (scaled, see above) and the bit size of its modulus.
FieldModulus == 24781
MODULUS_BIT_SIZE == 15

\* Width of the machine integer the native arithmetic recovers magnitudes to.
U128Bits == 8
U128_MAX == 2^U128Bits - 1

(***************************************************************************)
(* Bounds of the model                                                     *)
(***************************************************************************)
\* Dec operands have magnitudes 0..DecMagMax or U128_MAX-DecMagMax..U128_MAX.
DecMagMax == 2

\* The helpers' polygons have their vertices on the lattice
\* {-Spread, 0, Spread}^2 and the query point in (-QueryMax..QueryMax)^2.
Spread == 2
QueryMax == 2

\* The circuit's number of public commitments (MAX_HASHES of the handlers,
\* CIRCUIT_MAX_POLYGON_HASHES = 1024 as deployed), and the longest h3_map a
\* /prove request carries: longer than MAX_HASHES, so that a map can
\* exceed it.
MAX_HASHES == 2
MaxMapLen == 3

\* The server process is started at most MaxStarts times.
MaxStarts == 8

(***************************************************************************)
(* Field arithmetic (ark_ff::PrimeField)                                   *)
(***************************************************************************)
FAdd(a, b) == (a + b) % FieldModulus
FNeg(a) == (FieldModulus - a) % FieldModulus
FSub(a, b) == FAdd(a, FNeg(b))
FMul(a, b) == (a * b) % FieldModulus

\* to_bits_le(): MODULUS_BIT_SIZE bits, least significant first.
to_bits_le(f) == [i \in 1..MODULUS_BIT_SIZE |-> (f \div 2^(i - 1)) % 2 = 1]

(***************************************************************************)
(* Native Dec (fixed_point_decimal.rs)                                     *)
(***************************************************************************)
Dec(v, s) == [val |-> v, neg |-> s]
zero_dec == Dec(0, FALSE)

saturating_add(a, b) == IF a + b > U128_MAX THEN U128_MAX ELSE a + b

signed_add_u128(a_neg, a_mag, b_neg, b_mag) ==
    IF a_neg = b_neg
    THEN <<a_neg, saturating_add(a_mag, b_mag)>>
    ELSE IF a_mag >= b_mag
         THEN <<a_neg, a_mag - b_mag>>
         ELSE <<b_neg, b_mag - a_mag>>

\* The two low limbs of the big integer: the low 128 bits of the element.
u128_from_field_element(f) == f % (U128_MAX + 1)

Dec_add_uncanonical(self, rhs) ==
    LET a_u128 == u128_from_field_element(self.val)
        b_u128 == u128_from_field_element(rhs.val)
        r == signed_add_u128(self.neg, a_u128, rhs.neg, b_u128)
    IN  Dec(r[2], r[1])

Dec_add(self, rhs) ==
    LET a_u128 == u128_from_field_element(self.val)
        b_u128 == u128_from_field_element(rhs.val)
        r == signed_add_u128(self.neg, a_u128, rhs.neg, b_u128)
        res_neg == IF r[2] = 0 THEN FALSE ELSE r[1]
    IN  Dec(r[2], res_neg)

Dec_sub(self, rhs) ==
    LET r_negated == IF rhs.val = 0
                     THEN [rhs EXCEPT !.neg = FALSE]
                     ELSE [rhs EXCEPT !.neg = ~rhs.neg]
    IN  Dec_add(self, r_negated)

\* the mutant: the sign is the XOR also for a zero product
Dec_mul_unscaled_xor(self, rhs) ==
    Dec(FMul(self.val, rhs.val), self.neg # rhs.neg)

Dec_mul_unscaled(self, rhs) ==
    LET result_val == FMul(self.val, rhs.val)
        result_neg == IF result_val = 0 THEN FALSE ELSE self.neg # rhs.neg
    IN  Dec(result_val, result_neg)

(***************************************************************************)
(* In-circuit Dec (DecVar) and comparisons.  A constraint variable is      *)
(* modelled by the value it is assigned.                                   *)
(***************************************************************************)
\* Boolean::select(cond, a, b)
select(cond, a, b) == IF cond THEN a ELSE b

\* cst(plus): the field constants +1 and -1.
cst(plus) == IF plus THEN 1 ELSE FNeg(1)

\* the mutant: the sign is read from the first bit, not the last
DecVar_add_first_bit(self, rhs) ==
    LET s1 == select(self.neg, cst(FALSE), cst(TRUE))
        s2 == select(rhs.neg, cst(FALSE), cst(TRUE))
        sum_val == FAdd(FMul(self.val, s1), FMul(rhs.val, s2))
        final_sign_bit == to_bits_le(sum_val)[1]
    IN  Dec(select(final_sign_bit, FNeg(sum_val), sum_val), final_sign_bit)

DecVar_add(self, rhs) ==
    LET s1 == select(self.neg, cst(FALSE), cst(TRUE))
        s2 == select(rhs.neg, cst(FALSE), cst(TRUE))
        sum_val == FAdd(FMul(self.val, s1), FMul(rhs.val, s2))
        sum_bits == to_bits_le(sum_val)
        final_sign_bit == sum_bits[MODULUS_BIT_SIZE]   \* .last()
        negated_sum_val == FNeg(sum_val)
        abs_mag == select(final_sign_bit, negated_sum_val, sum_val)
    IN  Dec(abs_mag, final_sign_bit)

\* "Subtraction reuses addition with a sign-flipped operand."
DecVar_sub(self, rhs) == DecVar_add(self, [rhs EXCEPT !.neg = ~rhs.neg])

\* "Multiplication multiplies the two field variables and XORs the sign
\* bits; zero-canonicalisation is not enforced in-circuit."
DecVar_mul_unscaled(self, rhs) == Dec(FMul(self.val, rhs.val), self.neg # rhs.neg)

\* FpVar::is_smaller_than_unchecked: the low bit of 2 * (self - other).
is_smaller_than_unchecked(self, other) ==
    to_bits_le(FMul(2, FSub(self, other)))[1]

\* FpVar::is_cmp_unchecked(other, ordering, should_also_check_equality)
is_cmp_unchecked(self, other, ordering, should_also_check_equality) ==
    LET swap == (ordering = "Greater") # should_also_check_equality
        left == IF swap THEN other ELSE self
        right == IF swap THEN self ELSE other
        is_smaller == is_smaller_than_unchecked(left, right)
    IN  IF should_also_check_equality THEN ~is_smaller ELSE is_smaller

\* the mutant: compare l <= r
comp_dec_less_equal(l, r) ==
    IF l.neg /\ ~r.neg THEN TRUE
    ELSE IF ~l.neg /\ r.neg THEN FALSE
    ELSE IF ~l.neg /\ ~r.neg THEN l.val <= r.val
    ELSE l.val >= r.val

\* compare l < r
comp_dec_less_than(l, r) ==
    IF l.neg /\ ~r.neg THEN TRUE
    ELSE IF ~l.neg /\ r.neg THEN FALSE
    ELSE IF ~l.neg /\ ~r.neg THEN l.val < r.val
    ELSE l.val > r.val

comp_dec_less_than_gadget(l, r) ==
    LET case1 == l.neg /\ ~r.neg
        case3_cond == ~l.neg /\ ~r.neg
        case3_val_lt == is_cmp_unchecked(l.val, r.val, "Less", FALSE)
        case3 == case3_cond /\ case3_val_lt
        case4_cond == l.neg /\ r.neg
        case4_val_gt == is_cmp_unchecked(l.val, r.val, "Greater", FALSE)
        case4 == case4_cond /\ case4_val_gt
    IN  case1 \/ case3 \/ case4

(***************************************************************************)
(* Point-in-polygon (circuit.rs).  polygon is the MAX_VERTICES buffer; the *)
(* code's slot i (from 0) is polygon[i + 1].                               *)
(***************************************************************************)
\* d_j = (x2-x1)*(py-y1) - (y2-y1)*(px-x1), native
edge_cross(pt, current, next) ==
    LET x2_x1 == Dec_sub(next.x, current.x)
        py_y1 == Dec_sub(pt.y, current.y)
        y2_y1 == Dec_sub(next.y, current.y)
        px_x1 == Dec_sub(pt.x, current.x)
        a == Dec_mul_unscaled(x2_x1, py_y1)
        b == Dec_mul_unscaled(y2_y1, px_x1)
    IN  Dec_sub(a, b)

\* the same in-circuit
edge_cross_gadget(pt, current, next) ==
    LET x2_x1 == DecVar_sub(next.x, current.x)
        py_y1 == DecVar_sub(pt.y, current.y)
        y2_y1 == DecVar_sub(next.y, current.y)
        px_x1 == DecVar_sub(pt.x, current.x)
        a == DecVar_mul_unscaled(x2_x1, py_y1)
        b == DecVar_mul_unscaled(y2_y1, px_x1)
    IN  DecVar_sub(a, b)

\* d_j of iteration i of the native loop
d_j_native(pt, poly, n, i) ==
    LET current == poly[i + 1]
        next == poly[((i + 1) % n) + 1]
    IN  edge_cross(pt, current, next)

\* outside_count after the loop for i in 0..num_vertices
RECURSIVE outside_count_native(_, _, _, _)
outside_count_native(pt, poly, n, upto) ==
    IF upto = 0 THEN 0
    ELSE LET i == upto - 1
             d_j == d_j_native(pt, poly, n, i)
         IN  outside_count_native(pt, poly, n, upto - 1)
               + (IF comp_dec_less_than(d_j, zero_dec) THEN 1 ELSE 0)

is_point_in_polygon_open(pt, poly, n) ==
    IF n < 3 THEN FALSE
    ELSE outside_count_native(pt, poly, n, n - 1) = 0

is_point_in_polygon(pt, poly, n) ==
    IF n < 3 THEN FALSE
    ELSE outside_count_native(pt, poly, n, n) = 0

\* d_j of iteration i of the in-circuit loop
d_j_gadget(pt, poly, i) ==
    LET current == poly[i + 1]
        next == poly[((i + 1) % CIRCUIT_MAX_VERTICES) + 1]
    IN  edge_cross_gadget(pt, current, next)

\* outside_count after the loop for i in 0..MAX_VERTICES
RECURSIVE outside_count_gadget(_, _, _, _)
outside_count_gadget(pt, poly, n_var, upto) ==
    IF upto = 0 THEN 0
    ELSE LET i == upto - 1
             active_i == is_cmp_unchecked(i % FieldModulus, n_var, "Less", FALSE)
             d_j == d_j_gadget(pt, poly, i)
             is_outside == comp_dec_less_than_gadget(d_j, zero_dec)
             inc_flag == active_i /\ is_outside
             inc_val == select(inc_flag, 1, 0)
         IN  FAdd(outside_count_gadget(pt, poly, n_var, upto - 1), inc_val)

is_point_in_polygon_gadget(pt, poly, n_var) ==
    LET outside_count == outside_count_gadget(pt, poly, n_var, CIRCUIT_MAX_VERTICES)
        valid_n == is_cmp_unchecked(n_var, 3, "Greater", FALSE)
        outside_zero == outside_count = 0
    IN  valid_n /\ outside_zero

(***************************************************************************)
(* Polygon commitment (circuit.rs)                                         *)
(***************************************************************************)
\* squeeze_field_elements(1)[0] of the ideal sponge
squeeze(absorbed) == absorbed

bool_f(b) == IF b THEN 1 ELSE 0

RECURSIVE absorb_slots_all(_, _, _)
absorb_slots_all(poly, n, upto) ==
    IF upto = 0 THEN <<>>
    ELSE LET v == poly[upto]
         IN  absorb_slots_all(poly, n, upto - 1)
               \o <<v.x.val, bool_f(v.x.neg), v.y.val, bool_f(v.y.neg)>>

\* what the loop for i in 0..MAX_VERTICES absorbs, up to slot upto
RECURSIVE absorb_slots(_, _, _)
absorb_slots(poly, n, upto) ==
    IF upto = 0 THEN <<>>
    ELSE LET i == upto - 1
             v == poly[i + 1]
         IN  absorb_slots(poly, n, upto - 1)
               \o (IF i < n
                   THEN <<v.x.val, bool_f(v.x.neg), v.y.val, bool_f(v.y.neg)>>
                   ELSE <<0, 0, 0, 0>>)

RECURSIVE absorb_slots_gadget(_, _, _)
absorb_slots_gadget(poly, n_var, upto) ==
    IF upto = 0 THEN <<>>
    ELSE LET i == upto - 1
             active_i == is_cmp_unchecked(i % FieldModulus, n_var, "Less", FALSE)
             flag_f == select(active_i, 1, 0)
             v == poly[i + 1]
             x_val == FMul(v.x.val, flag_f)
             x_sign == FMul(select(v.x.neg, 1, 0), flag_f)
             y_val == FMul(v.y.val, flag_f)
             y_sign == FMul(select(v.y.neg, 1, 0), flag_f)
         IN  absorb_slots_gadget(poly, n_var, upto - 1)
               \o <<x_val, x_sign, y_val, y_sign>>

\* the mutants: the padding slots absorbed as they are; the length left out
hash_polygon_gadget_unmasked(poly, n_var) ==
    squeeze(<<n_var>> \o absorb_slots_all(poly, n_var, CIRCUIT_MAX_VERTICES))

hash_polygon_unmasked(poly, n) ==
    squeeze(<<n % FieldModulus>> \o absorb_slots_all(poly, n, CIRCUIT_MAX_VERTICES))

hash_polygon_no_length(poly, n) ==
    squeeze(<<0>> \o absorb_slots(poly, n, CIRCUIT_MAX_VERTICES))

\* the assert!(num_vertices <= MAX_VERTICES) is the callers' guard
hash_polygon(poly, n) ==
    squeeze(<<n % FieldModulus>> \o absorb_slots(poly, n, CIRCUIT_MAX_VERTICES))

hash_polygon_gadget(poly, n_var) ==
    squeeze(<<n_var>> \o absorb_slots_gadget(poly, n_var, CIRCUIT_MAX_VERTICES))

(***************************************************************************)
(* The Dec harness: two operands, each native operation applied once       *)
(***************************************************************************)
DecMagnitudes == (0..DecMagMax) \cup ((U128_MAX - DecMagMax)..U128_MAX)
DecOperands == {Dec(v, s) : v \in DecMagnitudes, s \in BOOLEAN}

\* Option values: None, or Some(x) holding x.
None == <<>>
Some(x) == <<x>>

\* no process has been started, ./params is empty
StartIdle ==
    /\ files = [pk |-> "absent", vk |-> "absent"]
    /\ keys = None
    /\ setup_runs = 0
    /\ starts = 0

ServerIdle ==
    /\ request = None
    /\ response = None
    /\ verify_request = None
    /\ verdict = None
    /\ pc = "off"
    /\ StartIdle

HelpersIdle ==
    /\ point = [x |-> zero_dec, y |-> zero_dec]
    /\ polygon = [i \in 1..CIRCUIT_MAX_VERTICES |-> [x |-> zero_dec, y |-> zero_dec]]
    /\ num_vertices = 0
    /\ inside_native = FALSE
    /\ inside_gadget = FALSE
    /\ hash_native = <<>>
    /\ hash_gadget = <<>>
    /\ helpers_done = {}

DecIdle ==
    /\ dec_a = zero_dec
    /\ dec_b = zero_dec
    /\ dec_sum = zero_dec
    /\ dec_diff = zero_dec
    /\ dec_prod = zero_dec
    /\ decvar_sum = zero_dec
    /\ dec_done = {}

InitDec ==
    /\ dec_a \in DecOperands
    /\ dec_b \in DecOperands
    /\ dec_sum = zero_dec
    /\ dec_diff = zero_dec
    /\ dec_prod = zero_dec
    /\ decvar_sum = zero_dec
    /\ dec_done = {}
    /\ HelpersIdle
    /\ ServerIdle

DecAdd ==
    /\ "add" \notin dec_done
    /\ dec_sum' = Dec_add(dec_a, dec_b)
    /\ dec_done' = dec_done \cup {"add"}
    /\ UNCHANGED <<dec_a, dec_b, dec_diff, dec_prod, decvar_sum, helper_vars, server_vars, start_vars>>

DecSub ==
    /\ "sub" \notin dec_done
    /\ dec_diff' = Dec_sub(dec_a, dec_b)
    /\ dec_done' = dec_done \cup {"sub"}
    /\ UNCHANGED <<dec_a, dec_b, dec_sum, dec_prod, decvar_sum, helper_vars, server_vars, start_vars>>

DecMul ==
    /\ "mul" \notin dec_done
    /\ dec_prod' = Dec_mul_unscaled(dec_a, dec_b)
    /\ dec_done' = dec_done \cup {"mul"}
    /\ UNCHANGED <<dec_a, dec_b, dec_sum, dec_diff, decvar_sum, helper_vars, server_vars, start_vars>>

\* DecVar::add on witnesses allocated from the operands
DecVarAdd ==
    /\ "add_var" \notin dec_done
    /\ decvar_sum' = DecVar_add(dec_a, dec_b)
    /\ dec_done' = dec_done \cup {"add_var"}
    /\ UNCHANGED <<dec_a, dec_b, dec_sum, dec_diff, dec_prod,
                   helper_vars, server_vars, start_vars>>

NextDec == DecAdd \/ DecSub \/ DecMul \/ DecVarAdd

SpecDec == InitDec /\ [][NextDec]_vars

(***************************************************************************)
(* Dec::from_f64 and Point2DDec::from_f64.  The argument x2 stands for the *)
(* real 2 * x * 10^PREC, so that the truncation toward zero is visible:    *)
(* "floor(|x| * 10^PREC) as a 128-bit integer and recording the sign".     *)
(***************************************************************************)
Abs(k) == IF k < 0 THEN -k ELSE k

Dec_from_f64(x2) == Dec((Abs(x2) \div 2) % FieldModulus, x2 < 0)

Point2DDec_from_f64(x2, y2) == [x |-> Dec_from_f64(x2), y |-> Dec_from_f64(y2)]

\* the point at the integer coordinates <<x, y>> (in units of 10^-PREC)
LatticePoint(c) == Point2DDec_from_f64(2 * c[1], 2 * c[2])

zero_point == Point2DDec_from_f64(0, 0)

(***************************************************************************)
(* Plane geometry on integers, to say what the helpers are run on and what *)
(* "inside" means independently of the Dec arithmetic.                     *)
(***************************************************************************)
\* the integer a Dec stands for
DecValue(d) == IF d.neg THEN -d.val ELSE d.val
Coords(p) == <<DecValue(p.x), DecValue(p.y)>>

\* twice the signed area of the triangle o, a, b
Cross(o, a, b) ==
    (a[1] - o[1]) * (b[2] - o[2]) - (a[2] - o[2]) * (b[1] - o[1])

LexLess(a, b) == a[1] < b[1] \/ (a[1] = b[1] /\ a[2] < b[2])

\* vs (integer coordinates) is a strictly convex polygon in counter-clockwise
\* order: every other vertex lies strictly left of every edge.
ConvexCCW(vs) ==
    LET k == Len(vs)
    IN  /\ k >= 3
        /\ \A i \in 1..k : \A j \in 1..k :
              (j # i /\ j # (i % k) + 1) => Cross(vs[i], vs[(i % k) + 1], vs[j]) > 0

\* q lies on the closed segment a-b
OnSegment(q, a, b) ==
    /\ Cross(a, b, q) = 0
    /\ (q[1] - a[1]) * (q[1] - b[1]) <= 0
    /\ (q[2] - a[2]) * (q[2] - b[2]) <= 0

OnBoundary(q, vs) ==
    \E i \in 1..Len(vs) : OnSegment(q, vs[i], vs[(i % Len(vs)) + 1])

\* the edge a-b crosses the horizontal ray from q to the right
RayCrosses(q, a, b) ==
    /\ (a[2] > q[2]) # (b[2] > q[2])
    /\ IF b[2] > a[2]
       THEN (q[1] - a[1]) * (b[2] - a[2]) < (b[1] - a[1]) * (q[2] - a[2])
       ELSE (q[1] - a[1]) * (b[2] - a[2]) > (b[1] - a[1]) * (q[2] - a[2])

\* even-odd rule
OddCrossings(q, vs) ==
    Cardinality({i \in 1..Len(vs) : RayCrosses(q, vs[i], vs[(i % Len(vs)) + 1])}) % 2 = 1

StrictlyInside(q, vs) == ~OnBoundary(q, vs) /\ OddCrossings(q, vs)
StrictlyOutside(q, vs) == ~OnBoundary(q, vs) /\ ~OddCrossings(q, vs)

(***************************************************************************)
(* The helpers' harness, after tests::helpers_match_bn254: a vertex count, *)
(* a polygon buffer and a point are drawn, then the native and the         *)
(* in-circuit helpers are run on them.                                     *)
(***************************************************************************)
LatticeCoords == {-Spread, 0, Spread}
LatticeVertices == LatticeCoords \X LatticeCoords
QueryCoords == (-QueryMax)..QueryMax

\* s followed by v is still the beginning of a convex counter-clockwise
\* polygon whose first vertex is its least one
Extends(s, v) ==
    LET k == Len(s)
    IN  /\ LexLess(s[1], v)
        /\ \A i \in 1..k : s[i] # v
        /\ \A i \in 1..(k - 1) : Cross(s[i], s[i + 1], v) > 0
        /\ \A j \in 1..(k - 1) : Cross(s[k], v, s[j]) > 0

Chains[k \in 1..CIRCUIT_MAX_VERTICES] ==
    IF k = 1 THEN {<<v>> : v \in LatticeVertices}
    ELSE {Append(s, v) : <<s, v>> \in
             {c \in Chains[k - 1] \X LatticeVertices : Extends(c[1], c[2])}}

\* the convex counter-clockwise lattice polygons of 3..MAX_VERTICES vertices
ConvexPolygons ==
    UNION {{s \in Chains[k] : ConvexCCW(s)} : k \in 3..CIRCUIT_MAX_VERTICES}

\* the buffer of a polygon: its vertices, then canonical zero points
Buffer(vs) ==
    [i \in 1..CIRCUIT_MAX_VERTICES |->
        IF i <= Len(vs) THEN LatticePoint(vs[i]) ELSE zero_point]

PolygonBuffers == {Buffer(vs) : vs \in ConvexPolygons}

\* the first n vertices of a buffer, as integer coordinates
Vertices(poly, n) == [i \in 1..n |-> Coords(poly[i])]

InitHelpers ==
    /\ num_vertices \in 0..CIRCUIT_MAX_VERTICES
    /\ polygon \in PolygonBuffers
    /\ point \in {LatticePoint(c) : c \in QueryCoords \X QueryCoords}
    /\ inside_native = FALSE
    /\ inside_gadget = FALSE
    /\ hash_native = <<>>
    /\ hash_gadget = <<>>
    /\ helpers_done = {}
    /\ DecIdle
    /\ ServerIdle

\* ---------- native ----------
RunNative ==
    /\ "native" \notin helpers_done
    /\ inside_native' = is_point_in_polygon(point, polygon, num_vertices)
    /\ hash_native' = hash_polygon(polygon, num_vertices)
    /\ helpers_done' = helpers_done \cup {"native"}
    /\ UNCHANGED <<point, polygon, num_vertices, inside_gadget, hash_gadget,
                   dec_vars, server_vars, start_vars>>

\* ---------- gadget ----------
RunGadget ==
    /\ "gadget" \notin helpers_done
    /\ inside_gadget' =
          is_point_in_polygon_gadget(point, polygon, num_vertices % FieldModulus)
    /\ hash_gadget' = hash_polygon_gadget(polygon, num_vertices % FieldModulus)
    /\ helpers_done' = helpers_done \cup {"gadget"}
    /\ UNCHANGED <<point, polygon, num_vertices, inside_native, hash_native,
                   dec_vars, server_vars, start_vars>>

NextHelpers == RunNative \/ RunGadget

SpecHelpers == InitHelpers /\ [][NextHelpers]_vars

\* what a caller may leave in the slots behind the vertex count
PadPoints == {zero_point, Point2DDec_from_f64(-2 * Spread, -1)}

\* The commitment does not read the point: for the claims about the hasher
\* alone the point is fixed, and the buffers also come with every slot
\* behind their vertices filled with a point that is not the zero point.
HashBuffers ==
    {[i \in 1..CIRCUIT_MAX_VERTICES |-> IF i <= Len(vs) THEN LatticePoint(vs[i]) ELSE pad]
        : vs \in ConvexPolygons, pad \in PadPoints}

InitHash ==
    /\ num_vertices \in 0..CIRCUIT_MAX_VERTICES
    /\ polygon \in HashBuffers
    /\ point = zero_point
    /\ inside_native = FALSE
    /\ inside_gadget = FALSE
    /\ hash_native = <<>>
    /\ hash_gadget = <<>>
    /\ helpers_done = {}
    /\ DecIdle
    /\ ServerIdle

SpecHash == InitHash /\ [][NextHelpers]_vars

(***************************************************************************)
(* The world the handlers look at.  The H3 index and the Web-Mercator      *)
(* projection are collaborators of the program; here they are a table of   *)
(* cells, each with its projected boundary, and of locations, each with    *)
(* its projected coordinates and the cell that H3 puts it in.  Projected   *)
(* coordinates are given as by Dec_from_f64's argument (twice the real).   *)
(***************************************************************************)
\* cell.boundary() projected by gps_to_web_mercator, per cell index
CellBoundary(cell) ==
    CASE cell = "hexA"  -> << <<-4, -4>>, <<0, 0>>, <<0, 4>>, <<-4, 4>>, <<-8, 0>>, <<-8, -4>> >>
      [] cell = "pentB" -> << <<12, -4>>, <<12, 0>>, <<8, 4>>, <<4, 0>>, <<8, -4>> >>
      [] cell = "hexC"  -> << <<-4, -12>>, <<0, -8>>, <<0, -4>>, <<-4, -4>>, <<-8, -8>>, <<-8, -12>> >>

CellIndexes == {"hexA", "pentB", "hexC"}

\* CellIndex::from_str(hex).ok()
CellIndex_from_str(hex) == IF hex \in CellIndexes THEN Some(hex) ELSE None

\* what a client may put in h3_map: cell indexes and a string that is none
MapStrings == CellIndexes \cup {"zz"}

\* (lat, lon) of a request: xy is gps_to_web_mercator(lon, lat), cell is
\* LatLng::new(lat, lon).to_cell(res).  The last location lies in hexA by
\* the index and outside hexA's projected boundary.
Locations ==
    { [xy |-> <<-4, 0>>,  cell |-> "hexA"],
      [xy |-> <<-3, 1>>,  cell |-> "hexA"],
      [xy |-> <<-4, -1>>, cell |-> "hexA"],
      [xy |-> <<8, 0>>,   cell |-> "pentB"],
      [xy |-> <<10, -2>>, cell |-> "pentB"],
      [xy |-> <<0, -4>>,  cell |-> "hexA"] }

\* Resolution::try_from(u8)
Resolution_try_from(r) == IF r \in 0..15 THEN Some(r) ELSE None

Min(a, b) == IF a < b THEN a ELSE b

(***************************************************************************)
(* Field elements that travel as public inputs are sequences: a commitment *)
(* is the sequence the sponge absorbed, the constant k is <<k>>.           *)
(***************************************************************************)
F_zero == <<0>>
F_one == <<1>>

\* to_b64: serialize_uncompressed, then base64.  kind is the serialised type.
to_b64(kind, p) == [b64 |-> TRUE, kind |-> kind, of |-> p]

\* B64.decode, then T::deserialize_uncompressed: None on either failure
from_b64(kind, str) ==
    IF str.b64 /\ str.kind = kind THEN Some(str.of) ELSE None

(***************************************************************************)
(* The witness builder (api/prove.rs)                                      *)
(***************************************************************************)
\* the boundary padded to MAX vertices, and n
boundary_polygon(boundary) ==
    LET n == Min(Len(boundary), CIRCUIT_MAX_VERTICES)
    IN  << [i \in 1..CIRCUIT_MAX_VERTICES |->
               IF i <= n THEN Point2DDec_from_f64(boundary[i][1], boundary[i][2])
               ELSE Point2DDec_from_f64(0, 0)],
           n >>

current_h3_polygon(loc) == boundary_polygon(CellBoundary(loc.cell))

hash_cell_boundary(poly, n) == hash_polygon(poly, n)

\* the mutant: an entry that does not parse leaves a zero in the list
RECURSIVE hash_map_cells_gaps(_)
hash_map_cells_gaps(h3_cells) ==
    IF h3_cells = <<>> THEN <<>>
    ELSE LET cell == CellIndex_from_str(Head(h3_cells))
         IN  (IF cell = None THEN <<F_zero>>
              ELSE LET pn == boundary_polygon(CellBoundary(cell[1]))
                   IN  <<hash_cell_boundary(pn[1], pn[2])>>)
             \o hash_map_cells_gaps(Tail(h3_cells))

\* filter_map(from_str(..).ok()), then map(boundary -> hash), collected
RECURSIVE hash_map_cells(_)
hash_map_cells(h3_cells) ==
    IF h3_cells = <<>> THEN <<>>
    ELSE LET cell == CellIndex_from_str(Head(h3_cells))
         IN  (IF cell = None THEN <<>>
              ELSE LET pn == boundary_polygon(CellBoundary(cell[1]))
                   IN  <<hash_cell_boundary(pn[1], pn[2])>>)
             \o hash_map_cells(Tail(h3_cells))

\* the mutant: the point is not looked at
final_flag_hash_only(body) ==
    LET pn == current_h3_polygon(body.loc)
        cell_hash == hash_cell_boundary(pn[1], pn[2])
        map_hashes == hash_map_cells(body.h3_map)
    IN  \E i \in 1..Len(map_hashes) : map_hashes[i] = cell_hash

\* steps 1 to 3 of the handler: the flag the witness builder claims
final_flag(body) ==
    LET pn == current_h3_polygon(body.loc)
        cell_hash == hash_cell_boundary(pn[1], pn[2])
        map_hashes == hash_map_cells(body.h3_map)
        inside_poly == is_point_in_polygon(
                           Point2DDec_from_f64(body.loc.xy[1], body.loc.xy[2]), pn[1], pn[2])
        hash_match == \E i \in 1..Len(map_hashes) : map_hashes[i] = cell_hash
    IN  inside_poly /\ hash_match

\* step 4: the first MAX_HASHES map hashes, then zeros
pub_hash_arr(map_hashes) ==
    [i \in 1..MAX_HASHES |->
        IF i <= Len(map_hashes) THEN map_hashes[i] ELSE F_zero]

\* step 6
public_inputs(body) ==
    <<IF final_flag(body) THEN F_one ELSE F_zero>>
        \o pub_hash_arr(hash_map_cells(body.h3_map))

(***************************************************************************)
(* PointInMapCircuit and Groth16.  The circuit's constraints are those     *)
(* listed for the composite circuit: the in-circuit commitment and         *)
(* predicate, the equality with each public commitment, their disjunction, *)
(* the conjunction, and its equality with the public flag.                 *)
(***************************************************************************)
PointInMapCircuit_new(pt, poly, n, flag, hashes) ==
    [point |-> pt, polygon |-> poly, num_vertices |-> n,
     flag |-> flag, pub_hashes |-> hashes]

\* B_final of the circuit
circuit_final(c) ==
    LET n_var == c.num_vertices % FieldModulus
        H_cell == hash_polygon_gadget(c.polygon, n_var)
        B_in == is_point_in_polygon_gadget(c.point, c.polygon, n_var)
        B_match == \E j \in 1..MAX_HASHES : c.pub_hashes[j] = H_cell
    IN  B_in /\ B_match

\* cs.is_satisfied()
circuit_satisfied(c) == circuit_final(c) = c.flag

\* the instance a proof is for
circuit_instance(c) == <<IF c.flag THEN F_one ELSE F_zero>> \o c.pub_hashes

\* A proof (a, b, c): the three elements stand for the instance they were
\* made for and for whether the witness satisfied the constraints.
Groth16_proof(c) ==
    LET pi == [inst |-> circuit_instance(c), sat |-> circuit_satisfied(c)]
    IN  [a |-> pi, b |-> pi, c |-> pi]

\* Groth16::prove on the circuit.  A satisfied circuit gives a proof.  For an
\* unsatisfied one the outcome is the library's: an error, or a proof that
\* does not verify (the prover asserts satisfaction in debug builds only).
Groth16_prove(c) ==
    IF circuit_satisfied(c)
    THEN {[ok |-> TRUE, proof |-> Groth16_proof(c)]}
    ELSE {[ok |-> FALSE], [ok |-> TRUE, proof |-> Groth16_proof(c)]}

\* Groth16::verify_with_processed_vk: an error when the number of inputs is
\* not the verifying key's, else the pairing check
Groth16_verify(inputs, proof) ==
    IF Len(inputs) # 1 + MAX_HASHES
    THEN [ok |-> FALSE, err |-> TRUE]
    ELSE [ok |-> /\ proof.a = proof.b
                 /\ proof.b = proof.c
                 /\ proof.a.sat
                 /\ proof.a.inst = inputs,
          err |-> FALSE]

(***************************************************************************)
(* The handlers                                                            *)
(***************************************************************************)
\* POST /prove: every response the handler can give to body
prove(body) ==
    IF Resolution_try_from(body.resolution) = None
    THEN {[status |-> 400, err |-> "invalid resolution"]}
    ELSE
      LET pn == current_h3_polygon(body.loc)
          pt == Point2DDec_from_f64(body.loc.xy[1], body.loc.xy[2])
          flag == final_flag(body)
          hash_arr == pub_hash_arr(hash_map_cells(body.h3_map))
          circuit == PointInMapCircuit_new(pt, pn[1], pn[2], flag, hash_arr)
          pis == public_inputs(body)
      IN  {IF r.ok
           THEN [status |-> 200, ok |-> TRUE,
                 proof |-> [a |-> to_b64("G1", r.proof.a),
                            b |-> to_b64("G2", r.proof.b),
                            c |-> to_b64("G1", r.proof.c)],
                 public_inputs |-> [i \in 1..Len(pis) |-> to_b64("Fr", pis[i])]]
           ELSE [status |-> 200, ok |-> FALSE, err_msg |-> "proof generation failed"]
           : r \in Groth16_prove(circuit)}

\* the mutant: a public input that does not decode is answered like a
\* library error
verify_lenient(body) ==
    LET a == from_b64("G1", body.proof.a)
        b == from_b64("G2", body.proof.b)
        c == from_b64("G1", body.proof.c)
        pis == [i \in 1..Len(body.public_inputs) |-> from_b64("Fr", body.public_inputs[i])]
    IN  IF a = None \/ b = None \/ c = None
        THEN [status |-> 400, err |-> "proof"]
        ELSE IF \E i \in 1..Len(pis) : pis[i] = None
        THEN [status |-> 200, ok |-> FALSE, err_msg |-> "verification error"]
        ELSE LET r == Groth16_verify([i \in 1..Len(pis) |-> pis[i][1]],
                                     [a |-> a[1], b |-> b[1], c |-> c[1]])
             IN  IF r.err
                 THEN [status |-> 200, ok |-> FALSE, err_msg |-> "verification error"]
                 ELSE [status |-> 200, ok |-> r.ok]

\* POST /verify
verify(body) ==
    LET a == from_b64("G1", body.proof.a)
        b == from_b64("G2", body.proof.b)
        c == from_b64("G1", body.proof.c)
        pis == [i \in 1..Len(body.public_inputs) |-> from_b64("Fr", body.public_inputs[i])]
    IN  IF a = None \/ b = None \/ c = None
        THEN [status |-> 400, err |-> "proof"]
        ELSE IF \E i \in 1..Len(pis) : pis[i] = None
        THEN [status |-> 400, err |-> "public input"]
        ELSE LET r == Groth16_verify([i \in 1..Len(pis) |-> pis[i][1]],
                                     [a |-> a[1], b |-> b[1], c |-> c[1]])
             IN  IF r.err
                 THEN [status |-> 200, ok |-> FALSE, err_msg |-> "verification error"]
                 ELSE [status |-> 200, ok |-> r.ok]

(***************************************************************************)
(* The server: a client posts to /prove, and posts what it got, as it is   *)
(* or changed, to /verify.  The handlers keep no state between requests,   *)
(* so one exchange is followed from the state the server starts in.        *)
(***************************************************************************)
RECURSIVE SeqsUpTo(_, _)
SeqsUpTo(S, k) ==
    IF k = 0 THEN {<<>>}
    ELSE LET shorter == SeqsUpTo(S, k - 1)
         IN  shorter \cup {Append(s, x) : s \in {t \in shorter : Len(t) = k - 1}, x \in S}

ProveRequests ==
    [loc : Locations, resolution : {9, 99}, h3_map : SeqsUpTo(MapStrings, MaxMapLen)]

\* a string that is not base64
garbage == [b64 |-> FALSE, kind |-> "", of |-> <<>>]

\* the bodies a client makes of an ok /prove response: the response as it
\* is, the flag replaced by the other one, the last public input left out,
\* proof.a or proof.c or a public input that is not base64, and proof.b or
\* a public input that is the base64 of a G1 element
VerifyRequests(resp) ==
    LET sent == [proof |-> resp.proof, public_inputs |-> resp.public_inputs]
        flag == resp.public_inputs[1]
        other == to_b64("Fr", IF flag.of = F_one THEN F_zero ELSE F_one)
    IN  { sent,
          [sent EXCEPT !.public_inputs[1] = other],
          [sent EXCEPT !.public_inputs = SubSeq(@, 1, Len(@) - 1)],
          [sent EXCEPT !.proof.a = garbage],
          [sent EXCEPT !.proof.c = garbage],
          [sent EXCEPT !.proof.b = resp.proof.a],
          [sent EXCEPT !.public_inputs[Len(resp.public_inputs)] = garbage],
          [sent EXCEPT !.public_inputs[1] = resp.proof.a] }

Init ==
    /\ request = None
    /\ response = None
    /\ verify_request = None
    /\ verdict = None
    /\ pc = "serving"
    /\ StartIdle
    /\ DecIdle
    /\ HelpersIdle

Prove ==
    /\ pc = "serving"
    /\ request = None
    /\ \E body \in ProveRequests :
          /\ request' = Some(body)
          /\ \E resp \in prove(body) : response' = Some(resp)
    /\ verify_request' = None
    /\ verdict' = None
    /\ UNCHANGED <<pc, dec_vars, helper_vars, start_vars>>

Verify ==
    /\ pc = "serving"
    /\ response # None
    /\ response[1].status = 200
    /\ response[1].ok
    /\ verify_request = None
    /\ \E body \in VerifyRequests(response[1]) :
          /\ verify_request' = Some(body)
          /\ verdict' = Some(verify(body))
    /\ UNCHANGED <<request, response, pc, dec_vars, helper_vars, start_vars>>

Next == Prove \/ Verify

Spec == Init /\ [][Next]_vars

(***************************************************************************)
(* Process start (main.rs, keys.rs).  A file of ./params is absent, holds  *)
(* a serialised key ("valid"), or holds bytes that do not deserialise      *)
(* ("corrupt").  Setup is seeded with 0, so it always gives the same keys. *)
(***************************************************************************)
FileStates == {"absent", "valid", "corrupt"}

Groth16_circuit_specific_setup == [pk |-> "pk", vk |-> "vk"]

prepare_verifying_key(vk) == <<"prepared", vk>>

\* keys.rs: None unless both files exist and both deserialise
read_keys_from_disk(fs) ==
    IF ~(fs.pk # "absent" /\ fs.vk # "absent") THEN None
    ELSE IF fs.pk # "valid" THEN None
    ELSE IF fs.vk # "valid" THEN None
    ELSE Some([pk |-> "pk", pvk |-> prepare_verifying_key("vk")])

\* keys.rs: both files are (over)written
write_keys_to_disk(fs) == [pk |-> "valid", vk |-> "valid"]

\* keys.rs: the keys, the files left behind, and whether setup ran
load_or_gen_keys(fs) ==
    LET found == read_keys_from_disk(fs)
        made == Groth16_circuit_specific_setup
    IN  IF found # None
        THEN [keys |-> found[1], files |-> fs, setup |-> FALSE]
        ELSE [keys |-> [pk |-> made.pk, pvk |-> prepare_verifying_key(made.vk)],
              files |-> write_keys_to_disk(fs), setup |-> TRUE]

\* main.rs: setup on a dummy circuit; ./params is neither read nor written
generate_point_in_map_keys(fs) ==
    LET made == Groth16_circuit_specific_setup
    IN  [keys |-> [pk |-> made.pk, pvk |-> prepare_verifying_key(made.vk)],
         files |-> fs, setup |-> TRUE]

\* main.rs: what main does before it serves
main(fs) == generate_point_in_map_keys(fs)

InitStart ==
    /\ files \in [pk : FileStates, vk : FileStates]
    /\ keys = None
    /\ setup_runs = 0
    /\ starts = 0
    /\ request = None
    /\ response = None
    /\ verify_request = None
    /\ verdict = None
    /\ pc = "off"
    /\ DecIdle
    /\ HelpersIdle

\* the process is started: main runs up to HttpServer::run
Start ==
    /\ pc = "off"
    /\ starts < MaxStarts
    /\ LET r == main(files)
       IN  /\ keys' = Some(r.keys)
           /\ files' = r.files
           /\ setup_runs' = setup_runs + (IF r.setup THEN 1 ELSE 0)
    /\ starts' = starts + 1
    /\ pc' = "serving"
    /\ UNCHANGED <<request, response, verify_request, verdict, dec_vars, helper_vars>>

\* the process ends; the files stay
Stop ==
    /\ pc = "serving"
    /\ keys' = None
    /\ pc' = "off"
    /\ UNCHANGED <<files, setup_runs, starts,
                   request, response, verify_request, verdict, dec_vars, helper_vars>>

NextStart == Start \/ Stop

SpecStart == InitStart /\ [][NextStart]_vars

(***************************************************************************)
(* C1, C2, C4, C8, C9: the helpers                                         *)
(***************************************************************************)
BothRun == helpers_done = {"native", "gadget"}

\* C1: on the same point, polygon buffer and vertex count, the native
\* predicate and the in-circuit predicate return the same Boolean.
C1_NativeMatchesGadget == BothRun => inside_native = inside_gadget

\* C2: the native and the in-circuit hasher absorb the same sequence of
\* 1 + 4 * MAX_VERTICES field elements, so the two commitments are equal.
C2_HashNativeMatchesGadget ==
    BothRun => /\ hash_native = hash_gadget
               /\ Len(hash_native) = 1 + 4 * CIRCUIT_MAX_VERTICES

\* a vertex count below the buffer's length with a live slot behind it, a
\* negative coordinate in front of it, and both commitments computed
C2_Witness ==
    /\ BothRun
    /\ num_vertices \in 1..(CIRCUIT_MAX_VERTICES - 1)
    /\ polygon[num_vertices + 1] # zero_point
    /\ \E i \in 1..num_vertices : polygon[i].x.neg
    /\ hash_native = hash_gadget

\* C4: for a convex counter-clockwise polygon of n >= 3 vertices the native
\* predicate is true of every point strictly inside and false of every point
\* strictly outside.
C4_ConvexInsideOutside ==
    ("native" \in helpers_done /\ num_vertices >= 3
        /\ ConvexCCW(Vertices(polygon, num_vertices)))
    => /\ StrictlyInside(Coords(point), Vertices(polygon, num_vertices))
            => inside_native
       /\ StrictlyOutside(Coords(point), Vertices(polygon, num_vertices))
            => ~inside_native

\* a hexagon, a point with negative coordinates strictly inside, found inside
C4_Witness ==
    /\ "native" \in helpers_done
    /\ num_vertices = CIRCUIT_MAX_VERTICES
    /\ ConvexCCW(Vertices(polygon, num_vertices))
    /\ StrictlyInside(Coords(point), Vertices(polygon, num_vertices))
    /\ point.x.neg /\ point.y.neg
    /\ inside_native

\* poly with the slots behind n overwritten by f
Repadded(poly, n, f) ==
    [i \in 1..CIRCUIT_MAX_VERTICES |-> IF i <= n THEN poly[i] ELSE f[i]]

Repaddings(poly, n) ==
    {Repadded(poly, n, f) : f \in [(n + 1)..CIRCUIT_MAX_VERTICES -> PadPoints]}

\* C8: two buffers with the same vertex count n and the same first n
\* vertices have the same commitment, native and in-circuit, whatever the
\* slots behind n hold.
C8_PaddingIndependent ==
    BothRun =>
        \A other \in Repaddings(polygon, num_vertices) :
            /\ hash_polygon(other, num_vertices) = hash_native
            /\ hash_polygon_gadget(other, num_vertices % FieldModulus) = hash_gadget

\* the buffer holds a live vertex behind n, and the buffer with zeros there
\* commits to the same value
C8_Witness ==
    /\ BothRun
    /\ num_vertices \in 3..(CIRCUIT_MAX_VERTICES - 1)
    /\ polygon[num_vertices + 1] # zero_point
    /\ LET other == Repadded(polygon, num_vertices,
                             [i \in 1..CIRCUIT_MAX_VERTICES |-> zero_point])
       IN  /\ other # polygon
           /\ hash_polygon(other, num_vertices) = hash_native
           /\ hash_polygon_gadget(other, num_vertices % FieldModulus) = hash_gadget

\* the same n vertices followed by one canonical zero point
WithZeroSlot(poly, n) == [poly EXCEPT ![n + 1] = zero_point]

\* C9 as claimed: the commitment of an n-vertex polygon equals that of the
\* same n vertices followed by one zero point counted as a vertex (n + 1).
C9_ZeroVertexSameHash ==
    ("native" \in helpers_done /\ num_vertices < CIRCUIT_MAX_VERTICES)
    => hash_native = hash_polygon(WithZeroSlot(polygon, num_vertices), num_vertices + 1)

\* C9 as amended: the commitment of an n-vertex polygon equals that of the
\* same n vertices followed by one zero point when the zero point is not
\* counted (the vertex count stays n); counted as a vertex (n + 1) it
\* gives another commitment, the vertex count being absorbed first.
C9_ZeroSlotSameHash ==
    ("native" \in helpers_done /\ num_vertices < CIRCUIT_MAX_VERTICES)
    => /\ hash_native = hash_polygon(WithZeroSlot(polygon, num_vertices), num_vertices)
       /\ hash_native # hash_polygon(WithZeroSlot(polygon, num_vertices), num_vertices + 1)

\* five vertices counted, a live sixth slot replaced by the zero point
C9_Witness ==
    /\ "native" \in helpers_done
    /\ num_vertices = 5
    /\ polygon[6] # zero_point
    /\ hash_native = hash_polygon(WithZeroSlot(polygon, 5), 5)

(***************************************************************************)
(* C3, C5, C6, C7: the handlers                                            *)
(***************************************************************************)
\* /prove answered 200 with ok: true
ProveOk == response # None /\ response[1].status = 200 /\ response[1].ok

\* the request went past the resolution check
Served == request # None /\ Resolution_try_from(request[1].resolution) # None

\* the circuit the handler builds for body
RequestCircuit(body) ==
    LET pn == current_h3_polygon(body.loc)
    IN  PointInMapCircuit_new(
            Point2DDec_from_f64(body.loc.xy[1], body.loc.xy[2]), pn[1], pn[2],
            final_flag(body), pub_hash_arr(hash_map_cells(body.h3_map)))

\* /verify was sent the proof and the public inputs of the response unchanged
SentUnchanged ==
    /\ ProveOk
    /\ verify_request # None
    /\ verify_request[1] = [proof |-> response[1].proof,
                            public_inputs |-> response[1].public_inputs]

\* C3: the flag the witness builder claims is the Boolean the circuit
\* computes, and a proof and public inputs returned by /prove with ok: true,
\* sent unchanged to /verify, give { ok: true }.
C3_ProveVerifyRoundTrip ==
    /\ Served => final_flag(request[1]) = circuit_final(RequestCircuit(request[1]))
    /\ SentUnchanged => verdict = Some([status |-> 200, ok |-> TRUE])

IsParseable(hex) == CellIndex_from_str(hex) # None

\* the commitment of the cell an h3_map entry names
CellCommitment(hex) ==
    LET pn == boundary_polygon(CellBoundary(hex))
    IN  hash_polygon(pn[1], pn[2])

\* the native predicate on the request's point and its cell's boundary
RequestInside(body) ==
    LET pn == current_h3_polygon(body.loc)
    IN  is_point_in_polygon(Point2DDec_from_f64(body.loc.xy[1], body.loc.xy[2]),
                            pn[1], pn[2])

\* C5: the flag of a successful /prove is 1 exactly when the native predicate
\* holds of the point and the commitment of the point's cell is that of a
\* parseable h3_map entry; with no parseable entry the flag is 0.
C5_FinalFlag ==
    ProveOk =>
        LET body == request[1]
            flag == response[1].public_inputs[1]
            matched == \E i \in 1..Len(body.h3_map) :
                          /\ IsParseable(body.h3_map[i])
                          /\ CellCommitment(body.h3_map[i]) = CellCommitment(body.loc.cell)
        IN  /\ flag = to_b64("Fr", F_one) <=> (RequestInside(body) /\ matched)
            /\ flag \in {to_b64("Fr", F_one), to_b64("Fr", F_zero)}
            /\ (\A i \in 1..Len(body.h3_map) : ~IsParseable(body.h3_map[i]))
                  => flag = to_b64("Fr", F_zero)

\* the point's cell is in the map and the point is outside its boundary, so
\* the flag is 0 with a matching commitment
C5_Witness ==
    /\ ProveOk
    /\ \E i \in 1..Len(request[1].h3_map) : request[1].h3_map[i] = request[1].loc.cell
    /\ ~RequestInside(request[1])
    /\ response[1].public_inputs[1] = to_b64("Fr", F_zero)

\* the first MAX_HASHES parseable entries of a map
FirstParseable(h3_map) ==
    LET ps == SelectSeq(h3_map, IsParseable)
    IN  SubSeq(ps, 1, Min(Len(ps), MAX_HASHES))

\* C6: /prove returns the flag and the public inputs it returns for the map
\* cut to its first MAX_HASHES parseable entries.
C6_ExtraEntriesIgnored ==
    ProveOk =>
        LET cut == [request[1] EXCEPT !.h3_map = FirstParseable(@)]
            pis == public_inputs(cut)
        IN  response[1].public_inputs = [i \in 1..Len(pis) |-> to_b64("Fr", pis[i])]

\* C7: a successful /prove carries 1 + MAX_HASHES public inputs: the flag,
\* then the commitments of the parseable entries in their order, with no
\* gap for an entry that does not parse, then zeros.
C7_PublicInputsLayout ==
    ProveOk =>
        LET pis == response[1].public_inputs
            ps == SelectSeq(request[1].h3_map, IsParseable)
            k == Min(Len(ps), MAX_HASHES)
        IN  /\ Len(pis) = 1 + MAX_HASHES
            /\ pis[1] \in {to_b64("Fr", F_zero), to_b64("Fr", F_one)}
            /\ \A j \in 1..k : pis[1 + j] = to_b64("Fr", CellCommitment(ps[j]))
            /\ \A j \in (k + 1)..MAX_HASHES : pis[1 + j] = to_b64("Fr", F_zero)

\* an entry that does not parse in front of one that does, and a zero behind
C7_Witness ==
    /\ ProveOk
    /\ Len(request[1].h3_map) = 2
    /\ ~IsParseable(request[1].h3_map[1])
    /\ IsParseable(request[1].h3_map[2])
    /\ response[1].public_inputs[2] = to_b64("Fr", CellCommitment(request[1].h3_map[2]))
    /\ response[1].public_inputs[3] = to_b64("Fr", F_zero)

(***************************************************************************)
(* C10                                                                     *)
(***************************************************************************)
\* negate as the claim words it: flip the sign unless the magnitude is zero.
Negate(d) == IF d.val = 0 THEN d ELSE [d EXCEPT !.neg = ~d.neg]

\* C10: for all in-range a and b, add(a, negate(a)) is the canonical zero
\* (val = 0, neg = false) and sub(a, b) equals add(a, negate(b)).
C10_AddSubLaws ==
    /\ ("add" \in dec_done /\ dec_b = Negate(dec_a)) => dec_sum = zero_dec
    /\ ("sub" \in dec_done) => dec_diff = Dec_add(dec_a, Negate(dec_b))

\* a is a non-zero negative value, b its negation, and both results are in.
C10_Witness ==
    /\ dec_done = {"add", "sub", "mul"}
    /\ dec_a.neg /\ dec_a.val > 0
    /\ dec_b = Negate(dec_a)
    /\ dec_sum = zero_dec
    /\ dec_diff.val = 2 * dec_a.val /\ dec_diff.neg

(***************************************************************************)
(* C11: key setup                                                          *)
(***************************************************************************)
KeysOnDisk(fs) == fs.pk = "valid" /\ fs.vk = "valid"

\* C11: a start that finds both key files, deserialisable, loads them and
\* does not run Groth16 setup; any other start runs setup once and leaves
\* both files written, so that the starts after it reuse them.
C11_KeySetupOneShot ==
    [][(pc = "off" /\ pc' = "serving") =>
          IF KeysOnDisk(files)
          THEN setup_runs' = setup_runs /\ files' = files
          ELSE setup_runs' = setup_runs + 1 /\ KeysOnDisk(files')]_vars

(***************************************************************************)
(* C12: /verify                                                            *)
(***************************************************************************)
ProofDecodes(body) ==
    /\ from_b64("G1", body.proof.a) # None
    /\ from_b64("G2", body.proof.b) # None
    /\ from_b64("G1", body.proof.c) # None

InputsDecode(body) ==
    \A i \in 1..Len(body.public_inputs) : from_b64("Fr", body.public_inputs[i]) # None

\* the pairing check on the decoded body
PairingCheck(body) ==
    Groth16_verify([i \in 1..Len(body.public_inputs) |-> body.public_inputs[i].of],
                   [a |-> body.proof.a.of, b |-> body.proof.b.of, c |-> body.proof.c.of])

\* C12: when an element of the proof or a public input does not decode the
\* response is HTTP 400 and carries no verdict; otherwise it is HTTP 200,
\* { ok: false, err_msg } when the library reports an error (a wrong number
\* of public inputs) and { ok: b }, b the pairing check, when it does not.
C12_VerifyClassification ==
    verdict # None =>
        LET body == verify_request[1]
            v == verdict[1]
        IN  IF ~(ProofDecodes(body) /\ InputsDecode(body))
            THEN v.status = 400 /\ "ok" \notin DOMAIN v
            ELSE /\ v.status = 200
                 /\ IF PairingCheck(body).err
                    THEN v.ok = FALSE /\ "err_msg" \in DOMAIN v
                    ELSE v.ok = PairingCheck(body).ok /\ "err_msg" \notin DOMAIN v

\* a body whose proof decodes and whose public input does not was answered
C12_Witness ==
    /\ verdict # None
    /\ ProofDecodes(verify_request[1])
    /\ ~InputsDecode(verify_request[1])
    /\ verdict[1].status = 400

\* further cases of C12 that are reached: a library error, a failed and a
\* successful pairing check
C12_Reached_LibraryError ==
    verdict # None /\ verdict[1].status = 200 /\ "err_msg" \in DOMAIN verdict[1]

C12_Reached_PairingFalse ==
    verdict # None /\ verdict[1] = [status |-> 200, ok |-> FALSE]

C12_Reached_PairingTrue ==
    verdict # None /\ verdict[1] = [status |-> 200, ok |-> TRUE]

(***************************************************************************)
(* C13: points on an edge                                                  *)
(***************************************************************************)
\* the slot (from 1) the native predicate takes as the end of edge i
NextSlot(i, n) == (i % n) + 1

\* the two products whose difference is d_i, as integers
ProductA(q, a, b) == (b[1] - a[1]) * (q[2] - a[2])
ProductB(q, a, b) == (b[2] - a[2]) * (q[1] - a[1])

\* C13: when every edge i < n (n >= 3) has d_i >= 0, edges with d_i = 0
\* included, the native predicate is true; and an edge with d_i = 0 is not
\* counted as outside, whatever the signs of the two products subtracted.
C13_EdgePointsInside ==
    ("native" \in helpers_done /\ num_vertices >= 3) =>
        LET n == num_vertices
            vs == Vertices(polygon, n)
            q == Coords(point)
        IN  /\ (\A i \in 1..n : Cross(vs[i], vs[NextSlot(i, n)], q) >= 0)
                  => inside_native
            /\ \A i \in 1..n :
                  Cross(vs[i], vs[NextSlot(i, n)], q) = 0 =>
                      ~comp_dec_less_than(
                          edge_cross(point, polygon[i], polygon[NextSlot(i, n)]),
                          zero_dec)

\* a point on an edge of a convex polygon where the two equal products are
\* negative, off the other edges' lines, found inside
C13_Witness ==
    /\ "native" \in helpers_done
    /\ num_vertices >= 3
    /\ ConvexCCW(Vertices(polygon, num_vertices))
    /\ LET n == num_vertices
           vs == Vertices(polygon, n)
           q == Coords(point)
       IN  /\ \A i \in 1..n : Cross(vs[i], vs[NextSlot(i, n)], q) >= 0
           /\ \E i \in 1..n :
                 /\ Cross(vs[i], vs[NextSlot(i, n)], q) = 0
                 /\ ProductA(q, vs[i], vs[NextSlot(i, n)]) < 0
                 /\ ProductB(q, vs[i], vs[NextSlot(i, n)]) < 0
    /\ inside_native

(***************************************************************************)
(* C14: the gate of the in-circuit predicate                               *)
(***************************************************************************)
\* the in-circuit outside counter of the state's inputs
GadgetCounter ==
    outside_count_gadget(point, polygon, num_vertices % FieldModulus,
                         CIRCUIT_MAX_VERTICES)

\* C14: the in-circuit predicate is true exactly when n >= 3 and its outside
\* counter is zero; so it is true of a triangle none of whose active edges
\* is counted.
C14_GadgetGate ==
    "gadget" \in helpers_done =>
        inside_gadget = (num_vertices >= 3 /\ GadgetCounter = 0)

(***************************************************************************)
(* C15: the edges of the in-circuit predicate                              *)
(***************************************************************************)
\* C15: for 3 <= n <= MAX_V and every active slot i < n, the d_i the
\* in-circuit predicate computes is the cross product on the edge from V_i
\* to V_((i+1) mod n), the one the native predicate computes.
C15_GadgetEdges ==
    ("gadget" \in helpers_done /\ num_vertices >= 3) =>
        LET n == num_vertices
            vs == Vertices(polygon, n)
        IN  \A i \in 0..(n - 1) :
              /\ DecValue(d_j_gadget(point, polygon, i))
                    = Cross(vs[i + 1], vs[((i + 1) % n) + 1], Coords(point))
              /\ DecValue(d_j_gadget(point, polygon, i))
                    = DecValue(d_j_native(point, polygon, n, i))

(***************************************************************************)
(* C16, C17, C18: Dec and DecVar arithmetic                                *)
(***************************************************************************)
\* the operands are in range for an addition: no saturation, and the sum
\* far below the bit the in-circuit sign is read from
InRangeForAdd == dec_a.val + dec_b.val <= U128_MAX

\* C16: on operands in range the in-circuit add gives the (val, neg) of the
\* native add: the magnitude of the signed sum, its sign, and neg = false
\* for a zero result.
C16_DecVarAddMatchesNative ==
    ({"add", "add_var"} \subseteq dec_done /\ InRangeForAdd) =>
        /\ decvar_sum = dec_sum
        /\ decvar_sum.val = Abs(DecValue(dec_a) + DecValue(dec_b))
        /\ decvar_sum.neg = (DecValue(dec_a) + DecValue(dec_b) < 0)

\* operands of opposite signs, a negative sum
C16_Witness ==
    /\ {"add", "add_var"} \subseteq dec_done
    /\ InRangeForAdd
    /\ ~dec_a.neg /\ dec_a.val > 0
    /\ dec_b.neg /\ dec_b.val > dec_a.val
    /\ decvar_sum = dec_sum
    /\ decvar_sum.neg

\* C17: the magnitude of every result of add, sub and mul_unscaled on
\* operands in range fits the machine integer, and is its maximum when the
\* exact result does not fit.
C17_MagnitudeSaturates ==
    /\ "add" \in dec_done =>
          /\ dec_sum.val <= U128_MAX
          /\ Abs(DecValue(dec_a) + DecValue(dec_b)) > U128_MAX => dec_sum.val = U128_MAX
    /\ "sub" \in dec_done =>
          /\ dec_diff.val <= U128_MAX
          /\ Abs(DecValue(dec_a) - DecValue(dec_b)) > U128_MAX => dec_diff.val = U128_MAX
    /\ "mul" \in dec_done =>
          /\ dec_prod.val <= U128_MAX
          /\ Abs(DecValue(dec_a) * DecValue(dec_b)) > U128_MAX => dec_prod.val = U128_MAX

\* C18: every result of the native add, sub and mul_unscaled with val = 0
\* has neg = false, also when an operand is a zero with neg = true.
C18_ResultsCanonical ==
    /\ "add" \in dec_done => (dec_sum.val = 0 => ~dec_sum.neg)
    /\ "sub" \in dec_done => (dec_diff.val = 0 => ~dec_diff.neg)
    /\ "mul" \in dec_done => (dec_prod.val = 0 => ~dec_prod.neg)

\* a zero product of a negative zero and a positive operand, a zero sum and
\* a zero difference of operands that cancel
C18_Witness ==
    /\ {"add", "sub", "mul"} \subseteq dec_done
    /\ dec_a = Dec(0, TRUE)
    /\ dec_b = Dec(0, FALSE)
    /\ dec_sum = zero_dec /\ dec_diff = zero_dec /\ dec_prod = zero_dec

(***************************************************************************)
(* C19: the sign of a zero                                                 *)
(***************************************************************************)
FlipSign(d) == [d EXCEPT !.neg = ~d.neg]

\* the points got from p by flipping the sign of one zero coordinate
ZeroSignFlipsOf(p) ==
    (IF p.x.val = 0 THEN {[p EXCEPT !.x = FlipSign(@)]} ELSE {})
        \cup (IF p.y.val = 0 THEN {[p EXCEPT !.y = FlipSign(@)]} ELSE {})

\* the buffers got from poly by doing so in one of the first n slots
ZeroSignFlipsIn(poly, n) ==
    UNION {{[poly EXCEPT ![i] = v] : v \in ZeroSignFlipsOf(poly[i])} : i \in 1..n}

\* C19: flipping the sign of a zero coordinate of the point or of an active
\* vertex changes neither the point-in-polygon result nor the commitment,
\* natively and in-circuit.
C19_ZeroSignInsensitive ==
    BothRun =>
        LET n == num_vertices
            n_var == num_vertices % FieldModulus
        IN  /\ \A pt \in ZeroSignFlipsOf(point) :
                  /\ is_point_in_polygon(pt, polygon, n) = inside_native
                  /\ is_point_in_polygon_gadget(pt, polygon, n_var) = inside_gadget
            /\ \A poly \in ZeroSignFlipsIn(polygon, n) :
                  /\ is_point_in_polygon(point, poly, n) = inside_native
                  /\ is_point_in_polygon_gadget(point, poly, n_var) = inside_gadget
                  /\ hash_polygon(poly, n) = hash_native
                  /\ hash_polygon_gadget(poly, n_var) = hash_gadget

====
